---- MODULE Spec2Model ----
(***************************************************************************)
(* Model of the agent orchestrator: SystemHelper (src/graph.py), the two   *)
(* graph nodes generator / librarian and the StateGraph wiring             *)
(* (src/agent.py).                                                         *)
(*                                                                         *)
(* Spec      : one run of the compiled graph (graph.invoke(inputs)).       *)
(* FairSpec  : Spec with weak fairness on the node steps and on the        *)
(*             external input.                                             *)
(* HelperSpec: SystemHelper.invoke / SystemHelper.invoke_tool applied in   *)
(*             any order to a GraphState.                                  *)
(* PairSpec  : two runs of the graph that share marshall, the registry and *)
(*             a deterministic model, their steps interleaved.             *)
(***************************************************************************)
EXTENDS Naturals, Sequences, FiniteSets, TLC

VARIABLES
    node,       \* graph node that runs next: "agent", "librarian", "END" ("none": no graph run)
    messages,   \* GraphState["messages"]: the run's conversation state
    initial,    \* the messages the run was started with
    given,      \* the messages the last step or operation received
    modelIn,    \* the message list of every model call of the last step, in order
    outcome,    \* how the last model call ended ("ok", "fail"), or the exception the
                \* last tool dispatch caught, or "none"
    work,       \* the messages of the state returned by the last invoke / invoke_tool
    directive,  \* the Command the last node returned
    ask,        \* the external input the librarian has read, or NoInput
    op,         \* the last step or operation
    invoked,    \* names of the tools invoked by the last step or operation, in order
    raised,     \* exception the last step or operation propagated to its caller, or NoError
    trace,      \* the steps the router has run so far, in order
    runs,       \* PairSpec: the two runs, each with its node, messages, initial
                \* messages, input and the steps it has run
    stub        \* PairSpec: the deterministic model both runs call

vars == <<node, messages, initial, given, modelIn, outcome, work, directive,
          ask, op, invoked, raised, trace, runs, stub>>

----------------------------------------------------------------------------
(* Bounds *)

MaxInit == 3        \* longest initial message sequence of a run
MaxMsgs == 3        \* HelperSpec stops extending a state at this length
MaxPairInit == 2    \* longest initial message sequence of a run of PairSpec

----------------------------------------------------------------------------
(* Messages (langchain_core.messages) *)

NoId == "<no id>"
NoInput == "<no input>"
NoError == "<no error>"

SystemMessage(c) == [type |-> "system", content |-> c, tool_calls |-> <<>>, tool_call_id |-> NoId]
HumanMessage(c)  == [type |-> "human", content |-> c, tool_calls |-> <<>>, tool_call_id |-> NoId]
AIMessage(c)     == [type |-> "ai", content |-> c, tool_calls |-> <<>>, tool_call_id |-> NoId]
AIToolMessage(c, tcs) == [type |-> "ai", content |-> c, tool_calls |-> tcs, tool_call_id |-> NoId]
ToolMessage(id, c) == [type |-> "tool", content |-> c, tool_calls |-> <<>>, tool_call_id |-> id]

WORLD_GENERATOR_PROMPT == "World Generator prompt"
WORLD_LIBRARIAN_PROMPT == "World Librarian prompt"

(* Tool calls a model response can carry.  The name and the arguments come  *)
(* from the model: the name may be unregistered, the arguments may not fit  *)
(* the tool's schema.                                                       *)
GoodArgs == [expression |-> "2+2"]
BadArgs  == [formula |-> "2+2"]
ToolCalls ==
    {[name |-> "calculator", args |-> GoodArgs, id |-> i] : i \in {"c1", "c2"}}
    \cup {[name |-> "calculator", args |-> BadArgs, id |-> i] : i \in {"c1", "c2"}}
    \cup {[name |-> "lookup", args |-> GoodArgs, id |-> i] : i \in {"c1", "c2"}}
(* A response carries no, one or two tool calls; the second call of a pair   *)
(* is a well-formed calculator call.                                        *)
ToolCallLists ==
    {<<>>} \cup {<<t>> : t \in ToolCalls}
    \cup {<<t, u>> : t \in ToolCalls,
                     u \in {v \in ToolCalls : v.name = "calculator" /\ v.args = GoodArgs}}

(* What the model endpoint can do with one call: answer with one Assistant  *)
(* message, with or without tool calls, or fail with an exception.          *)
ModelResponses == {AIToolMessage("answer", tcs) : tcs \in ToolCallLists}
ModelErrors == {"Connection error."}
ModelOutcomes ==
    {[ok |-> TRUE, response |-> r, error |-> NoError] : r \in ModelResponses}
    \cup {[ok |-> FALSE, response |-> AIMessage(""), error |-> e] : e \in ModelErrors}

Inputs == {"What is the population?", "Who rules?"}

InitPool == {SystemMessage(WORLD_GENERATOR_PROMPT), HumanMessage("Describe a city")}

RECURSIVE SeqsUpTo(_, _)
SeqsUpTo(S, n) ==
    IF n = 0 THEN {<<>>}
    ELSE LET shorter == SeqsUpTo(S, n - 1)
         IN  shorter \cup {Append(s, x) : s \in {t \in shorter : Len(t) = n - 1}, x \in S}

Last(s) == s[Len(s)]
IsPrefix(s, t) == Len(s) <= Len(t) /\ SubSeq(t, 1, Len(s)) = s

----------------------------------------------------------------------------
(* SystemHelper.invoke *)

(* try: response = self._call_agent(messages); messages + [response]        *)
(* except Exception as e: messages + [AIMessage(content=str(e))]            *)
InvokeForgetsOnFailure(msgs, o) ==
    IF o.ok THEN msgs \o <<o.response>>
    ELSE <<AIMessage(o.error)>>

Invoke(msgs, o) ==
    IF o.ok THEN msgs \o <<o.response>>
    ELSE msgs \o <<AIMessage(o.error)>>

----------------------------------------------------------------------------
(* The tool registry and SystemHelper.invoke_tool *)

(* tool_registry = {tool.name: tool for tool in tools}, tools = [calculator] *)
ToolRegistry == {"calculator"}

(* calculator.invoke(args): the arguments are validated against the schema  *)
(* (expression: str) before the body runs; the body returns the expression. *)
ToolInvoke(name, args) ==
    IF "expression" \in DOMAIN args
    THEN [ok |-> TRUE, output |-> args.expression, error |-> NoError]
    ELSE [ok |-> FALSE, output |-> "", error |-> "validation error for calculator: expression: Field required"]

(* str(output): the registered tools return text, whose str() is the text itself *)
Str(v) == v

NotFoundText(name) == "Tool " \o name \o " not found in registry"

(* SystemHelper._call_tool: raises NameError for an unregistered name, lets a *)
(* failure of the tool pass, else returns [ToolMessage(call_id, str(output))] *)
CallToolWrongId(tool_name, tool_args, call_id) ==
    IF tool_name \notin ToolRegistry
    THEN [raised |-> "NameError", error |-> NotFoundText(tool_name),
          messages |-> <<>>, invoked |-> <<>>]
    ELSE LET r == ToolInvoke(tool_name, tool_args)
         IN  IF r.ok
             THEN [raised |-> NoError, error |-> NoError,
                   messages |-> <<ToolMessage(tool_name, Str(r.output))>>,
                   invoked |-> <<tool_name>>]
             ELSE [raised |-> "ValidationError", error |-> r.error,
                   messages |-> <<>>, invoked |-> <<tool_name>>]

CallToolNoLookup(tool_name, tool_args, call_id) ==
    LET r == ToolInvoke(tool_name, tool_args)
    IN  IF r.ok
        THEN [raised |-> NoError, error |-> NoError,
              messages |-> <<ToolMessage(call_id, Str(r.output))>>,
              invoked |-> <<tool_name>>]
        ELSE [raised |-> "ValidationError", error |-> r.error,
              messages |-> <<>>, invoked |-> <<tool_name>>]

CallTool(tool_name, tool_args, call_id) ==
    IF tool_name \notin ToolRegistry
    THEN [raised |-> "NameError", error |-> NotFoundText(tool_name),
          messages |-> <<>>, invoked |-> <<>>]
    ELSE LET r == ToolInvoke(tool_name, tool_args)
         IN  IF r.ok
             THEN [raised |-> NoError, error |-> NoError,
                   messages |-> <<ToolMessage(call_id, Str(r.output))>>,
                   invoked |-> <<tool_name>>]
             ELSE [raised |-> "ValidationError", error |-> r.error,
                   messages |-> <<>>, invoked |-> <<tool_name>>]

(* hasattr(last_msg, 'tool_calls'): only an AIMessage has the attribute *)
HasToolCalls(m) == m.type = "ai" /\ m.tool_calls # <<>>

(* SystemHelper.invoke_tool.  messages[-1] of an empty list raises           *)
(* IndexError outside the try block.                                         *)
InvokeToolPropagates(msgs) ==
    IF msgs = <<>>
    THEN [messages |-> msgs, invoked |-> <<>>, raised |-> "IndexError", caught |-> NoError]
    ELSE IF ~HasToolCalls(Last(msgs))
    THEN [messages |-> msgs, invoked |-> <<>>, raised |-> NoError, caught |-> NoError]
    ELSE LET tool_call == Last(msgs).tool_calls[1]
             r == CallTool(tool_call.name, tool_call.args, tool_call.id)
         IN  IF r.raised = NoError
             THEN [messages |-> msgs \o r.messages, invoked |-> r.invoked,
                   raised |-> NoError, caught |-> NoError]
             ELSE [messages |-> msgs, invoked |-> r.invoked,
                   raised |-> r.raised, caught |-> NoError]

InvokeToolLastCall(msgs) ==
    IF msgs = <<>>
    THEN [messages |-> msgs, invoked |-> <<>>, raised |-> "IndexError", caught |-> NoError]
    ELSE IF ~HasToolCalls(Last(msgs))
    THEN [messages |-> msgs, invoked |-> <<>>, raised |-> NoError, caught |-> NoError]
    ELSE LET tool_call == Last(Last(msgs).tool_calls)
             r == CallTool(tool_call.name, tool_call.args, tool_call.id)
         IN  IF r.raised = NoError
             THEN [messages |-> msgs \o r.messages, invoked |-> r.invoked,
                   raised |-> NoError, caught |-> NoError]
             ELSE [messages |-> msgs \o <<AIMessage(r.error)>>, invoked |-> r.invoked,
                   raised |-> NoError, caught |-> r.raised]

InvokeToolReportsNoCall(msgs) ==
    IF msgs = <<>>
    THEN [messages |-> msgs, invoked |-> <<>>, raised |-> "IndexError", caught |-> NoError]
    ELSE IF ~HasToolCalls(Last(msgs))
    THEN [messages |-> msgs \o <<AIMessage("No tool calls in last message")>>,
          invoked |-> <<>>, raised |-> NoError, caught |-> NoError]
    ELSE LET tool_call == Last(msgs).tool_calls[1]
             r == CallTool(tool_call.name, tool_call.args, tool_call.id)
         IN  IF r.raised = NoError
             THEN [messages |-> msgs \o r.messages, invoked |-> r.invoked,
                   raised |-> NoError, caught |-> NoError]
             ELSE [messages |-> msgs \o <<AIMessage(r.error)>>, invoked |-> r.invoked,
                   raised |-> NoError, caught |-> r.raised]

InvokeToolDiagnosticKeepsCalls(msgs) ==
    IF msgs = <<>>
    THEN [messages |-> msgs, invoked |-> <<>>, raised |-> "IndexError", caught |-> NoError]
    ELSE IF ~HasToolCalls(Last(msgs))
    THEN [messages |-> msgs, invoked |-> <<>>, raised |-> NoError, caught |-> NoError]
    ELSE LET tool_call == Last(msgs).tool_calls[1]
             r == CallTool(tool_call.name, tool_call.args, tool_call.id)
         IN  IF r.raised = NoError
             THEN [messages |-> msgs \o r.messages, invoked |-> r.invoked,
                   raised |-> NoError, caught |-> NoError]
             ELSE [messages |-> msgs \o <<AIToolMessage(r.error, Last(msgs).tool_calls)>>,
                   invoked |-> r.invoked, raised |-> NoError, caught |-> r.raised]

InvokeTool(msgs) ==
    IF msgs = <<>>
    THEN [messages |-> msgs, invoked |-> <<>>, raised |-> "IndexError", caught |-> NoError]
    ELSE IF ~HasToolCalls(Last(msgs))
    THEN [messages |-> msgs, invoked |-> <<>>, raised |-> NoError, caught |-> NoError]
    ELSE LET tool_call == Last(msgs).tool_calls[1]
             r == CallTool(tool_call.name, tool_call.args, tool_call.id)
         IN  IF r.raised = NoError
             THEN [messages |-> msgs \o r.messages, invoked |-> r.invoked,
                   raised |-> NoError, caught |-> NoError]
             ELSE [messages |-> msgs \o <<AIMessage(r.error)>>, invoked |-> r.invoked,
                   raised |-> NoError, caught |-> r.raised]

----------------------------------------------------------------------------
(* The graph *)

NoDirective == [has_update |-> FALSE, update |-> <<>>, goto |-> "none"]

(* The messages channel of GraphState.  Its annotation carries the string   *)
(* "messages", which is not a reducer, so an update written by a node       *)
(* becomes the value of the channel.                                        *)
ApplyUpdate(channel, d) == IF d.has_update THEN d.update ELSE channel

GeneratorCommandSwapped(response) ==
    [has_update |-> TRUE,
     update |-> <<response, SystemMessage(WORLD_LIBRARIAN_PROMPT)>>,
     goto |-> "librarian"]

GeneratorCommand(response) ==
    [has_update |-> TRUE,
     update |-> <<SystemMessage(WORLD_LIBRARIAN_PROMPT), response>>,
     goto |-> "librarian"]

LibrarianCommandLoops == [has_update |-> FALSE, update |-> <<>>, goto |-> "librarian"]

LibrarianCommandToTool == [has_update |-> FALSE, update |-> <<>>, goto |-> "tool"]

LibrarianCommand == [has_update |-> FALSE, update |-> <<>>, goto |-> "END"]

(* the value of stub when no deterministic model is installed *)
NoStub == [even |-> "none", odd |-> "none"]

Init ==
    /\ node = "agent"
    /\ messages \in SeqsUpTo(InitPool, MaxInit)
    /\ initial = messages
    /\ given = <<>>
    /\ modelIn = <<>>
    /\ outcome = "none"
    /\ work = <<>>
    /\ directive = NoDirective
    /\ ask = NoInput
    /\ op = "none"
    /\ invoked = <<>>
    /\ raised = NoError
    /\ trace = <<>>
    /\ runs = <<>>
    /\ stub = NoStub

(* node "agent": generator(state) *)
Generator ==
    /\ node = "agent"
    /\ \E o \in ModelOutcomes :
        LET state == Invoke(messages, o)
            d == GeneratorCommand(Last(state))
        IN  /\ given' = messages
            /\ modelIn' = <<messages>>
            /\ outcome' = IF o.ok THEN "ok" ELSE "fail"
            /\ work' = state
            /\ directive' = d
            /\ messages' = ApplyUpdate(messages, d)
            /\ node' = d.goto
    /\ op' = "generator"
    /\ trace' = Append(trace, "generator")
    /\ invoked' = <<>>
    /\ UNCHANGED <<initial, ask, raised, runs, stub>>

(* node "librarian", first half: ask = input(...) blocks until a line is supplied *)
LibrarianInput ==
    /\ node = "librarian"
    /\ ask = NoInput
    /\ \E q \in Inputs : ask' = q
    /\ given' = messages
    /\ modelIn' = <<>>
    /\ outcome' = "none"
    /\ op' = "input"
    /\ trace' = Append(trace, "input")
    /\ invoked' = <<>>
    /\ UNCHANGED <<node, messages, initial, raised, work, directive, runs, stub>>

(* node "librarian", second half: marshall.invoke on a new state, then Command(goto=END) *)
Librarian ==
    /\ node = "librarian"
    /\ ask # NoInput
    /\ \E o \in ModelOutcomes :
        LET arg == messages \o <<HumanMessage(ask)>>
            state == Invoke(arg, o)
            d == LibrarianCommand
        IN  /\ modelIn' = <<arg>>
            /\ outcome' = IF o.ok THEN "ok" ELSE "fail"
            /\ work' = state
            /\ directive' = d
            /\ messages' = ApplyUpdate(messages, d)
            /\ node' = d.goto
    /\ op' = "librarian"
    /\ trace' = Append(trace, "librarian")
    /\ invoked' = <<>>
    /\ UNCHANGED <<initial, given, ask, raised, runs, stub>>

Next == Generator \/ LibrarianInput \/ Librarian

Spec == Init /\ [][Next]_vars

FairSpec == Spec /\ WF_vars(Generator) /\ WF_vars(LibrarianInput) /\ WF_vars(Librarian)

----------------------------------------------------------------------------
(* SystemHelper used directly: invoke and invoke_tool in any order *)

HelperInit ==
    /\ node = "none"
    /\ messages \in SeqsUpTo(InitPool, 1)
    /\ initial = messages
    /\ given = <<>>
    /\ modelIn = <<>>
    /\ outcome = "none"
    /\ work = <<>>
    /\ directive = NoDirective
    /\ ask = NoInput
    /\ op = "none"
    /\ invoked = <<>>
    /\ raised = NoError
    /\ trace = <<>>
    /\ runs = <<>>
    /\ stub = NoStub

HelperInvoke ==
    /\ node = "none"
    /\ Len(messages) < MaxMsgs
    /\ \E o \in ModelOutcomes :
        /\ messages' = Invoke(messages, o)
        /\ outcome' = IF o.ok THEN "ok" ELSE "fail"
    /\ given' = messages
    /\ modelIn' = <<messages>>
    /\ work' = messages'
    /\ op' = "invoke"
    /\ invoked' = <<>>
    /\ raised' = NoError
    /\ UNCHANGED <<node, initial, directive, ask, trace, runs, stub>>

HelperInvokeTool ==
    /\ node = "none"
    /\ LET r == InvokeTool(messages)
       IN  /\ Len(r.messages) <= MaxMsgs
           /\ messages' = r.messages
           /\ work' = r.messages
           /\ invoked' = r.invoked
           /\ raised' = r.raised
           /\ outcome' = IF r.caught = NoError THEN "none" ELSE r.caught
    /\ given' = messages
    /\ modelIn' = <<>>
    /\ op' = "invoke_tool"
    /\ UNCHANGED <<node, initial, directive, ask, trace, runs, stub>>

HelperNext == HelperInvoke \/ HelperInvokeTool

HelperSpec == HelperInit /\ [][HelperNext]_vars

----------------------------------------------------------------------------
(* Two runs of the graph sharing marshall and a deterministic model *)

(* A deterministic model: what it does is a function of the messages it is  *)
(* called with.  It answers by the parity of their number and puts the      *)
(* content of the last one into its answer.                                 *)
StubOutcomes ==
    {o \in ModelOutcomes :
        o.ok => (o.response.tool_calls = <<>>
                 \/ o.response.tool_calls = <<[name |-> "calculator", args |-> GoodArgs, id |-> "c1"]>>)}
Stubs == [even : StubOutcomes, odd : StubOutcomes]

StubCall(st, msgs) ==
    LET o == IF Len(msgs) % 2 = 0 THEN st.even ELSE st.odd
    IN  IF o.ok /\ msgs # <<>>
        THEN [o EXCEPT !.response.content = Last(msgs).content]
        ELSE o

PairPool == InitPool \cup {HumanMessage("Describe a forest")}

RunIds == {1, 2}

(* the state the graph hands to a node of run i: the channel of that run *)
RunStateShared(rs, i) == rs[1].messages

RunState(rs, i) == rs[i].messages

PairInit ==
    /\ stub \in Stubs
    /\ \E s1, s2 \in SeqsUpTo(PairPool, MaxPairInit) :
          runs = [i \in RunIds |->
                    [node |-> "agent",
                     messages |-> IF i = 1 THEN s1 ELSE s2,
                     initial |-> IF i = 1 THEN s1 ELSE s2,
                     ask |-> NoInput,
                     path |-> <<>>]]
    /\ node = "none"
    /\ messages = <<>>
    /\ initial = <<>>
    /\ given = <<>>
    /\ modelIn = <<>>
    /\ outcome = "none"
    /\ work = <<>>
    /\ directive = NoDirective
    /\ ask = NoInput
    /\ op = "none"
    /\ invoked = <<>>
    /\ raised = NoError
    /\ trace = <<>>

PairFrame ==
    UNCHANGED <<node, messages, initial, given, modelIn, outcome, work, directive,
                ask, op, invoked, raised, trace, stub>>

(* generator(state) in run i *)
PairGenerator(i) ==
    /\ runs[i].node = "agent"
    /\ LET msgs == RunState(runs, i)
           state == Invoke(msgs, StubCall(stub, msgs))
           d == GeneratorCommand(Last(state))
       IN  runs' = [runs EXCEPT ![i].messages = ApplyUpdate(runs[i].messages, d),
                                ![i].node = d.goto,
                                ![i].path = Append(@, "generator")]
    /\ PairFrame

(* librarian(state) in run i, up to the return of input(...) *)
PairLibrarianInput(i) ==
    /\ runs[i].node = "librarian"
    /\ runs[i].ask = NoInput
    /\ \E q \in Inputs :
          runs' = [runs EXCEPT ![i].ask = q, ![i].path = Append(@, "input")]
    /\ PairFrame

(* librarian(state) in run i, from marshall.invoke to the returned Command *)
PairLibrarian(i) ==
    /\ runs[i].node = "librarian"
    /\ runs[i].ask # NoInput
    /\ LET arg == RunState(runs, i) \o <<HumanMessage(runs[i].ask)>>
           state == Invoke(arg, StubCall(stub, arg))
           d == LibrarianCommand
       IN  runs' = [runs EXCEPT ![i].messages = ApplyUpdate(runs[i].messages, d),
                                ![i].node = d.goto,
                                ![i].path = Append(@, "librarian")]
    /\ PairFrame

PairNext ==
    \E i \in RunIds : PairGenerator(i) \/ PairLibrarianInput(i) \/ PairLibrarian(i)

PairSpec == PairInit /\ [][PairNext]_vars

----------------------------------------------------------------------------
(* Properties of a run (Spec, FairSpec) *)

RoleSteps == {"generator", "librarian"}

(* the message the model call of the last role step put at the end of the state *)
StepResponse == Last(work)

(* C1: after the Generator step the run's conversation state is the initial  *)
(* sequence S followed by the Librarian System message and then the          *)
(* Generator's Assistant response (length |S| + 2), and the goto is          *)
(* librarian.                                                                *)
C1_GeneratorAppendsTwo ==
    op = "generator" =>
        /\ messages = initial \o <<SystemMessage(WORLD_LIBRARIAN_PROMPT), StepResponse>>
        /\ Len(messages) = Len(initial) + 2
        /\ directive.goto = "librarian"

(* C2: after the Librarian step with external input q the run's conversation *)
(* state is the state the Librarian received followed by one Human message   *)
(* with content q and one Assistant message, and the goto is END.            *)
C2_LibrarianAppendsTwo ==
    op = "librarian" =>
        /\ messages = given \o <<HumanMessage(ask), StepResponse>>
        /\ StepResponse.type = "ai"
        /\ directive.goto = "END"

(* C3: every step of a run leaves the conversation state it found as a       *)
(* prefix of the new conversation state.                                     *)
C3_PrefixPreserved == [][IsPrefix(messages, messages')]_vars

(* C4: the length of the run's conversation state never decreases from one   *)
(* router step to the next.                                                  *)
C4_LengthNeverDecreases == [][Len(messages') >= Len(messages)]_vars

(* C5: when the model's response in a role step carries a tool call, a tool  *)
(* is dispatched in that step and its message follows the response in the    *)
(* state before the router moves on; without a tool call nothing is          *)
(* dispatched and nothing is raised.                                         *)
C5_ToolCallDispatchedInStep ==
    (op \in RoleSteps /\ outcome = "ok") =>
        LET response == work[Len(modelIn[1]) + 1]
        IN  IF HasToolCalls(response)
            THEN /\ Len(invoked) = 1
                 /\ Len(work) = Len(modelIn[1]) + 2
            ELSE /\ invoked = <<>>
                 /\ raised = NoError

C7_RunTerminates == <>(node = "END") /\ [][node # "END"]_vars

C7_Witness ==
    /\ node = "END"
    /\ outcome = "fail"
    /\ Last(messages).content \in ModelErrors

(* the order in which the router runs the steps of a run *)
FixedOrder == <<"generator", "input", "librarian">>

(* C13: the router runs one node at a time in a fixed order: the Generator   *)
(* once, then the Librarian once (its input, then its model call), then the  *)
(* run halts; the Librarian starts on the state the Generator's directive    *)
(* produced, and no node runs twice.                                         *)
C13_FixedOrder ==
    /\ IsPrefix(trace, FixedOrder)
    /\ node = (CASE Len(trace) = 0 -> "agent"
                 [] Len(trace) \in {1, 2} -> "librarian"
                 [] OTHER -> "END")
    /\ op = "input" => (directive.goto = "librarian" /\ given = directive.update)
    /\ Len(trace) >= 2 =>
          /\ Len(given) = 2
          /\ given[1] = SystemMessage(WORLD_LIBRARIAN_PROMPT)

C13_Witness == node = "END" /\ trace = FixedOrder /\ Len(initial) = 3

(* C14: in the Librarian step the input is read before the model is called,  *)
(* and the model is called once, with the state the Librarian received (the  *)
(* Librarian System message, then the Generator's Assistant response)        *)
(* followed by one Human message carrying the input as last element.         *)
C14_LibrarianModelInput ==
    [][op' = "librarian" =>
          /\ op = "input"
          /\ ask # NoInput
          /\ ask' = ask
          /\ modelIn = <<>>
          /\ Last(work).type = "ai"
          /\ given = <<SystemMessage(WORLD_LIBRARIAN_PROMPT), Last(work)>>
          /\ modelIn' = <<given \o <<HumanMessage(ask)>>>>]_vars

C14_Witness ==
    /\ op = "librarian"
    /\ Len(modelIn) = 1
    /\ Len(modelIn[1]) = 3
    /\ modelIn[1][1] = SystemMessage(WORLD_LIBRARIAN_PROMPT)
    /\ HasToolCalls(modelIn[1][2])
    /\ modelIn[1][3] = HumanMessage("Who rules?")

----------------------------------------------------------------------------
(* Properties of SystemHelper.invoke_tool (HelperSpec) *)

(* the last invoke_tool call found a tool call to dispatch *)
Dispatched == op = "invoke_tool" /\ given # <<>> /\ HasToolCalls(Last(given))

(* the tool call it dispatched: the first one of the last message *)
DispatchedCall == Last(given).tool_calls[1]

(* C8: when invoke_tool dispatches a call (name, args, id) to a registered   *)
(* tool that returns v, it appends one Tool message whose call identifier is *)
(* id and whose content is the text of v.                                    *)
C8_ToolMessageEchoesCall ==
    (/\ Dispatched
     /\ DispatchedCall.name \in ToolRegistry
     /\ ToolInvoke(DispatchedCall.name, DispatchedCall.args).ok) =>
        /\ Len(messages) = Len(given) + 1
        /\ IsPrefix(given, messages)
        /\ Last(messages).type = "tool"
        /\ Last(messages).tool_call_id = DispatchedCall.id
        /\ Last(messages).content = DispatchedCall.args.expression

C8_Witness ==
    /\ Dispatched
    /\ Len(Last(given).tool_calls) = 2
    /\ DispatchedCall.id = "c2"
    /\ Last(messages) = ToolMessage("c2", "2+2")

(* C9 as stated: every call dispatched to a registered tool yields exactly   *)
(* one Tool message carrying the call's identifier, also when the tool       *)
(* fails; nothing is propagated.                                             *)
C9_AlwaysToolMessage ==
    (Dispatched /\ DispatchedCall.name \in ToolRegistry) =>
        /\ raised = NoError
        /\ Len(messages) = Len(given) + 1
        /\ IsPrefix(given, messages)
        /\ Last(messages).type = "tool"
        /\ Last(messages).tool_call_id = DispatchedCall.id

(* C9 amended: every call dispatched to a registered tool yields exactly one *)
(* appended message and nothing is propagated: a Tool message carrying the   *)
(* call's identifier when the tool returns, and when the tool fails an       *)
(* Assistant message, without call identifier, whose content is the error.   *)
C9_ToolFailureBecomesAssistantMessage ==
    (Dispatched /\ DispatchedCall.name \in ToolRegistry) =>
        LET r == ToolInvoke(DispatchedCall.name, DispatchedCall.args)
        IN  /\ raised = NoError
            /\ Len(messages) = Len(given) + 1
            /\ IsPrefix(given, messages)
            /\ invoked = <<DispatchedCall.name>>
            /\ IF r.ok
               THEN /\ Last(messages).type = "tool"
                    /\ Last(messages).tool_call_id = DispatchedCall.id
               ELSE /\ Last(messages).type = "ai"
                    /\ Last(messages).tool_call_id = NoId
                    /\ Last(messages).tool_calls = <<>>
                    /\ Last(messages).content = r.error

C9_Witness ==
    /\ Dispatched
    /\ DispatchedCall.name = "calculator"
    /\ DispatchedCall.args = BadArgs
    /\ outcome = "ValidationError"
    /\ Last(messages).type = "ai"

(* C10: when the last Assistant message asks for a tool that is not in the   *)
(* registry, invoke_tool invokes no tool, raises nothing and appends exactly *)
(* one message, which reports that the tool was not found.                   *)
C10_UnknownToolReported ==
    (Dispatched /\ DispatchedCall.name \notin ToolRegistry) =>
        /\ invoked = <<>>
        /\ raised = NoError
        /\ messages = given \o <<AIMessage(NotFoundText(DispatchedCall.name))>>
        /\ work = messages

C10_Witness ==
    /\ Dispatched
    /\ DispatchedCall.name = "lookup"
    /\ outcome = "NameError"
    /\ Last(messages).content = "Tool lookup not found in registry"

(* the tool-call requests of a message sequence: <<j, k>> is the k-th call  *)
(* of the Assistant message at position j                                    *)
Requests(ms) ==
    UNION {{<<j, k>> : k \in 1..Len(ms[j].tool_calls)} :
                j \in {i \in 1..Len(ms) : ms[i].type = "ai"}}

(* the requests before position i that carry the identifier of the Tool      *)
(* message at position i                                                     *)
MatchingRequests(ms, i) ==
    {jk \in Requests(ms) :
        /\ jk[1] < i
        /\ ms[jk[1]].tool_calls[jk[2]].id = ms[i].tool_call_id}

(* no two requests of the sequence carry the same identifier *)
UniqueIds(ms) ==
    \A p, q \in Requests(ms) :
        p # q => ms[p[1]].tool_calls[p[2]].id # ms[q[1]].tool_calls[q[2]].id

ToolPositions(ms) == {i \in 1..Len(ms) : ms[i].type = "tool"}

(* C11 as stated: every Tool message of the state has the call identifier of *)
(* exactly one Assistant tool-call request that is earlier in the sequence.  *)
C11_ExactlyOneRequest ==
    \A i \in ToolPositions(messages) :
        Cardinality(MatchingRequests(messages, i)) = 1

(* C11 amended: every Tool message directly follows an Assistant message     *)
(* whose first tool-call request has its call identifier, so it matches at   *)
(* least one earlier request; it matches exactly one when no two requests of *)
(* the conversation carry the same identifier.                               *)
C11_ToolMessageFollowsItsRequest ==
    \A i \in ToolPositions(messages) :
        /\ i > 1
        /\ HasToolCalls(messages[i - 1])
        /\ messages[i - 1].tool_calls[1].id = messages[i].tool_call_id
        /\ Cardinality(MatchingRequests(messages, i)) >= 1
        /\ UniqueIds(messages) => Cardinality(MatchingRequests(messages, i)) = 1

C11_Witness ==
    /\ ToolPositions(messages) # {}
    /\ UniqueIds(messages)
    /\ Cardinality(Requests(messages)) = 2

(* C15: when the last Assistant message carries several tool calls,         *)
(* invoke_tool dispatches only the first: at most one tool is invoked, one   *)
(* message is appended, it answers the first call, and no Tool message is    *)
(* produced for the other calls.                                             *)
C15_OnlyFirstCallDispatched ==
    (Dispatched /\ Len(Last(given).tool_calls) >= 2) =>
        LET r == CallTool(DispatchedCall.name, DispatchedCall.args, DispatchedCall.id)
        IN  /\ Len(invoked) <= 1
            /\ invoked \in {<<>>, <<DispatchedCall.name>>}
            /\ Len(messages) = Len(given) + 1
            /\ IsPrefix(given, messages)
            /\ Cardinality(ToolPositions(messages)) <= Cardinality(ToolPositions(given)) + 1
            /\ IF r.raised = NoError
               THEN Last(messages) = ToolMessage(DispatchedCall.id, DispatchedCall.args.expression)
               ELSE Last(messages).type = "ai"

C15_Witness ==
    /\ Dispatched
    /\ Len(Last(given).tool_calls) = 2
    /\ DispatchedCall.name = "lookup"
    /\ Last(given).tool_calls[2].name = "calculator"
    /\ Last(given).tool_calls[2].id # DispatchedCall.id
    /\ ToolPositions(messages) = {}

(* C16: when the last message of a non-empty state carries no tool call,     *)
(* invoke_tool returns the same message sequence, invokes no tool and        *)
(* reports no failure.                                                       *)
C16_NoToolCallNoChange ==
    (op = "invoke_tool" /\ given # <<>> /\ ~HasToolCalls(Last(given))) =>
        /\ messages = given
        /\ work = given
        /\ invoked = <<>>
        /\ raised = NoError
        /\ outcome = "none"

C16_Witness ==
    /\ op = "invoke_tool"
    /\ given # <<>>
    /\ Last(given).type = "ai"
    /\ Last(given).tool_calls = <<>>
    /\ messages = given

(* C17: invoke on a state with messages M calls the model once, with exactly *)
(* M, and returns M followed by exactly one message: the model's Assistant   *)
(* response on success, an Assistant diagnostic on failure.                  *)
C17_InvokeAppendsOne ==
    op = "invoke" =>
        /\ modelIn = <<given>>
        /\ raised = NoError
        /\ Len(messages) = Len(given) + 1
        /\ IsPrefix(given, messages)
        /\ work = messages
        /\ IF outcome = "ok"
           THEN Last(messages) \in ModelResponses
           ELSE \E e \in ModelErrors : Last(messages) = AIMessage(e)

C17_Witness ==
    /\ op = "invoke"
    /\ outcome = "fail"
    /\ Len(given) = 2
    /\ HasToolCalls(Last(given))

(* C19: a second invoke_tool right after an invoke_tool changes nothing and  *)
(* dispatches nothing: the message the first one appended carries no tool    *)
(* call.                                                                     *)
C19_InvokeToolIdempotent ==
    [][(op = "invoke_tool" /\ op' = "invoke_tool") =>
          /\ messages' = messages
          /\ invoked' = <<>>
          /\ ~(messages # <<>> /\ HasToolCalls(Last(messages)))]_vars

C19_Witness ==
    /\ op = "invoke_tool"
    /\ given = messages
    /\ Len(given) >= 2
    /\ HasToolCalls(given[Len(given) - 1])
    /\ Last(given).type = "ai"

(* C20: for every state, also one with no messages, invoke_tool returns a    *)
(* state and propagates no exception.                                        *)
C20_InvokeToolNeverRaises == op = "invoke_tool" => raised = NoError

----------------------------------------------------------------------------
(* Properties of two runs (PairSpec) *)

(* C12: two runs started with the same initial messages, given the same      *)
(* external input and the same deterministic model and registry, pass        *)
(* through the same nodes and end with the same conversation state.          *)
C12_SameInputsSameResult ==
    (/\ runs[1].initial = runs[2].initial
     /\ runs[1].ask = runs[2].ask
     /\ runs[1].node = "END"
     /\ runs[2].node = "END") =>
        /\ runs[1].messages = runs[2].messages
        /\ runs[1].path = runs[2].path

C12_Witness ==
    /\ runs[1].node = "END"
    /\ runs[2].node = "END"
    /\ runs[1].initial = runs[2].initial
    /\ Len(runs[1].initial) = 1
    /\ runs[1].ask = runs[2].ask
    /\ stub.even # stub.odd
    /\ stub.odd.ok

(* the message the deterministic model, called alone with S, leaves at the   *)
(* end of the state                                                          *)
AloneResponse(S) ==
    LET o == IF Len(S) % 2 = 0 THEN stub.even ELSE stub.odd
    IN  IF ~o.ok THEN AIMessage(o.error)
        ELSE IF S = <<>> THEN o.response
        ELSE AIToolMessage(Last(S).content, o.response.tool_calls)

Contents(ms) == {ms[k].content : k \in 1..Len(ms)}

(* the contents only run i brought into the system *)
OwnContents(i, j) ==
    Contents(runs[i].initial) \ (Contents(runs[j].initial) \cup {WORLD_LIBRARIAN_PROMPT})

(* C18: when two runs with their own initial states share the helper, the    *)
(* registry and the model and their steps interleave in any order, nothing   *)
(* one run brought in appears in the other run's conversation state, and     *)
(* each run has at every node the state it has when it runs alone.           *)
C18_RunsIsolated ==
    \A i \in RunIds :
        /\ \A j \in RunIds \ {i} :
              Contents(runs[i].messages) \cap OwnContents(j, i) = {}
        /\ runs[i].node = "agent" => runs[i].messages = runs[i].initial
        /\ runs[i].node \in {"librarian", "END"} =>
              runs[i].messages =
                  <<SystemMessage(WORLD_LIBRARIAN_PROMPT), AloneResponse(runs[i].initial)>>

C18_Witness ==
    /\ runs[1].initial = <<HumanMessage("Describe a city")>>
    /\ runs[2].initial = <<HumanMessage("Describe a forest")>>
    /\ runs[1].path = <<"generator", "input">>
    /\ runs[2].node = "END"
    /\ stub.odd.ok
    /\ Last(runs[2].messages).content = "Describe a forest"

====
